---- MODULE Spec2Model ----
(***************************************************************************)
(* Model of autoendpoint's WNS router (routers/wns/router.rs) and of the   *)
(* endpoint error type (error.rs).                                         *)
(*                                                                         *)
(* A usize value is kept as four 16-bit limbs, most significant first, so  *)
(* that the 64-bit result of `ttl as usize` is represented exactly.        *)
(***************************************************************************)
EXTENDS Integers, Sequences, FiniteSets, TLC

VARIABLES
    router,     \* the WnsRouter of the running process (settings, endpoint_url, clients)
    epoch,      \* how many routers have been constructed so far
    lastReg,    \* the last register call: its arguments and what it returned, until
                \* the next notification is routed
    calls,      \* the route_notification calls: position, notification, effects, result
    err,        \* an ApiErrorKind
    response    \* the HTTP response rendered for err

vars == <<router, epoch, lastReg, calls, err, response>>

routerVars == <<router, epoch, lastReg, calls>>

errVars == <<err, response>>

(***************************************************************************)
(* Bounds                                                                  *)
(***************************************************************************)
\* number of router constructions (process starts) a behaviour may contain
MaxEpoch == 2

(***************************************************************************)
(* usize arithmetic                                                        *)
(***************************************************************************)
LimbBase == 256 * 256

LimbTop == LimbBase - 1

I32Max == 1073741823 * 2 + 1

\* `x as usize` for a signed x on a 64-bit target: the two's complement bit
\* pattern, sign-extended.
AsUsize(x) ==
    IF x >= 0
    THEN <<0, 0, x \div LimbBase, x % LimbBase>>
    ELSE LET u == (x + I32Max) + 1
         IN  <<LimbTop, LimbTop, (LimbBase \div 2) + (u \div LimbBase), u % LimbBase>>

RECURSIVE ULessFrom(_, _, _)
ULessFrom(a, b, i) ==
    IF i > Len(a) THEN FALSE
    ELSE IF a[i] # b[i] THEN a[i] < b[i]
    ELSE ULessFrom(a, b, i + 1)

ULess(a, b) == ULessFrom(a, b, 1)

\* Ord::max / Ord::min on usize
UMax(a, b) == IF ULess(b, a) THEN a ELSE b

UMin(a, b) == IF ULess(b, a) THEN b ELSE a

MAX_TTL == 28 * 24 * 60 * 60

\* router.rs:152
EffectiveTtl(min_ttl, ttl) == UMin(AsUsize(MAX_TTL), UMax(min_ttl, AsUsize(ttl)))

\* router.rs:185
ResponseTtl(ttl) == AsUsize(ttl)

(***************************************************************************)
(* Value domains                                                           *)
(***************************************************************************)
Profiles == {"dev", "gcm"}

AppIds == Profiles \cup {"unknown-app-id"}

Tokens == {"test-token", "other-token"}

Uaids == {"uaid-1", "uaid-2"}

MessageIds == {"test-message-id", "msg-2"}

MinTtls == {0, 60}

Ttls == {-I32Max - 1, -1, 0, 60, MAX_TTL, MAX_TTL + 1}

EndpointUrls ==
    { [origin |-> "http://localhost:8080", path |-> <<>>],
      [origin |-> "https://push.example", path |-> <<"v1">>] }

\* serde_json::Value, as far as the router looks at it
StringValue(s) == [kind |-> "String", v |-> s]

NumberValue == [kind |-> "Number", v |-> "0"]

\* Value::as_str
AsStr(val) == IF val.kind = "String" THEN <<val.v>> ELSE <<>>

\* HashMap::get(key).and_then(Value::as_str)
GetStr(map, key) == IF key \in DOMAIN map THEN AsStr(map[key]) ELSE <<>>

Missing == [kind |-> "Missing", v |-> ""]

TokenOpts == {Missing, NumberValue} \cup {StringValue(t) : t \in Tokens}

AppIdOpts == {Missing, NumberValue} \cup {StringValue(a) : a \in AppIds}

MkMap(t, a) ==
    [k \in {x \in {"token", "app_id"} :
              (x = "token" /\ t # Missing) \/ (x = "app_id" /\ a # Missing)}
       |-> IF k = "token" THEN t ELSE a]

EmptyMap == MkMap(Missing, Missing)

\* Option<HashMap<String, Value>>
NoRouterData == [some |-> FALSE, map |-> EmptyMap]

SomeRouterData(m) == [some |-> TRUE, map |-> m]

RouterDatas ==
    {NoRouterData} \cup {SomeRouterData(MkMap(t, a)) : t \in TokenOpts, a \in AppIdOpts}

Notifications ==
    [message_id : MessageIds, ttl : Ttls, uaid : Uaids,
     router_data : RouterDatas, well_formed : BOOLEAN]

(***************************************************************************)
(* Errors and results of the router                                        *)
(***************************************************************************)
NoError == [name |-> "", arg |-> ""]

\* WnsError variants, converted into RouterError / ApiError by `.into()` and `?`
NoRegistrationToken == [name |-> "NoRegistrationToken", arg |-> ""]

NoAppId == [name |-> "NoAppId", arg |-> ""]

InvalidAppId(app_id) == [name |-> "InvalidAppId", arg |-> app_id]

\* errors the backend client's send can return
SendErrors == {"NotFound", "RequestTimeout", "Authentication", "Upstream"}

BackendError(e) == [name |-> e, arg |-> ""]

NoUrl == [origin |-> "", path |-> <<>>]

NoResult == [tag |-> "None", err |-> NoError, location |-> NoUrl, ttl |-> AsUsize(0)]

ErrResult(e) == [tag |-> "Err", err |-> e, location |-> NoUrl, ttl |-> AsUsize(0)]

\* RouterResponse::success(location, ttl)
OkResult(location, ttl) == [tag |-> "Ok", err |-> NoError, location |-> location, ttl |-> ttl]

(***************************************************************************)
(* WnsRouter::routing_info                                                 *)
(***************************************************************************)
\* routing_info with the two checks in the other order
RoutingInfoAppIdFirst(router_data) ==
    LET token == GetStr(router_data, "token")
        app_id == GetStr(router_data, "app_id")
    IN  IF app_id = <<>> THEN [ok |-> FALSE, err |-> NoAppId, token |-> "", app_id |-> ""]
        ELSE IF token = <<>> THEN [ok |-> FALSE, err |-> NoRegistrationToken, token |-> "", app_id |-> ""]
        ELSE [ok |-> TRUE, err |-> NoError, token |-> token[1], app_id |-> app_id[1]]

RoutingInfo(router_data) ==
    LET token == GetStr(router_data, "token")
        app_id == GetStr(router_data, "app_id")
    IN  IF token = <<>> THEN [ok |-> FALSE, err |-> NoRegistrationToken, token |-> "", app_id |-> ""]
        ELSE IF app_id = <<>> THEN [ok |-> FALSE, err |-> NoAppId, token |-> "", app_id |-> ""]
        ELSE [ok |-> TRUE, err |-> NoError, token |-> token[1], app_id |-> app_id[1]]

(***************************************************************************)
(* WnsRouter::register                                                     *)
(***************************************************************************)
\* register with the two values stored under each other's key
RegisteredDataSwapped(token, app_id) ==
    [k \in {"token", "app_id"} |-> IF k = "token" THEN StringValue(app_id) ELSE StringValue(token)]

\* the mapping built at router.rs:123-128
RegisteredData(token, app_id) ==
    [k \in {"token", "app_id"} |-> IF k = "token" THEN StringValue(token) ELSE StringValue(app_id)]

\* register without the contains_key check
RegisterResultUnchecked(clients, token, app_id) ==
    [tag |-> "Ok", err |-> NoError,
     data |-> [k \in {"token", "app_id"} |->
                 IF k = "token" THEN StringValue(token) ELSE StringValue(app_id)]]

RegisterResult(clients, token, app_id) ==
    IF app_id \notin clients
    THEN [tag |-> "Err", err |-> InvalidAppId(app_id), data |-> EmptyMap]
    ELSE [tag |-> "Ok", err |-> NoError, data |-> RegisteredData(token, app_id)]

(***************************************************************************)
(* Url::join with an absolute-path reference: the base keeps its origin    *)
(* and its path is replaced                                                *)
(***************************************************************************)
JoinAbsolutePath(base, segments) == [origin |-> base.origin, path |-> segments]

\* router.rs:181-184
Location(endpoint_url, message_id) == JoinAbsolutePath(endpoint_url, <<"m", message_id>>)

(***************************************************************************)
(* WnsRouter::new / create_clients                                         *)
(***************************************************************************)
NoRouter ==
    [built |-> FALSE, clients |-> {}, min_ttl |-> 0, endpoint_url |-> NoUrl]

\* a construction that leaves out the clients that fail to build
NewRouterPartial(readable, creds, authOk, min_ttl, endpoint_url) ==
    IF ~readable THEN NoRouter
    ELSE [built |-> TRUE, clients |-> creds \cap authOk, min_ttl |-> min_ttl,
          endpoint_url |-> endpoint_url]

\* `readable`: settings.credentials() parses; `creds`: the configured
\* profiles; `authOk`: the profiles whose WnsClient::new succeeds.
NewRouter(readable, creds, authOk, min_ttl, endpoint_url) ==
    IF ~readable THEN NoRouter
    ELSE IF \E p \in creds : p \notin authOk THEN NoRouter
    ELSE [built |-> TRUE, clients |-> creds, min_ttl |-> min_ttl,
          endpoint_url |-> endpoint_url]

Constructions ==
    { NewRouter(readable, creds, authOk, m, u) :
        readable \in BOOLEAN, creds \in SUBSET Profiles, authOk \in SUBSET Profiles,
        m \in MinTtls, u \in EndpointUrls }

\* WnsRouter::active
Active(r) == r.clients # {}

(***************************************************************************)
(* Calls of route_notification                                             *)
(***************************************************************************)
Calls == {"call-1", "call-2"}

IdleNotification ==
    [message_id |-> "test-message-id", ttl |-> 0, uaid |-> "uaid-1",
     router_data |-> NoRouterData, well_formed |-> TRUE]

NoRegistration ==
    [tag |-> "None", err |-> NoError, data |-> EmptyMap, epoch |-> 0,
     token |-> "", app_id |-> ""]

\* pc: "idle", "send" (suspended in client.send), "remove_user" (suspended in
\* db.remove_user inside handle_error), "done" (returned).
\* sends, handled, removes, remove_ok, *_metrics: what the call has done so far.
\* send_outcome: what client.send returned.  reg: the register call whose
\* returned routing data the notification carries, if any.
IdleCall ==
    [pc |-> "idle", n |-> IdleNotification, app_id |-> "",
     sends |-> <<>>, send_outcome |-> "", handled |-> <<>>,
     removes |-> <<>>, remove_ok |-> <<>>,
     success_metrics |-> 0, error_metrics |-> 0,
     result |-> NoResult, reg |-> NoRegistration]

\* build_message_data fails only for a notification that is not well formed
BuildMessageDataError == [name |-> "BuildMessageData", arg |-> ""]

\* a lookup that falls back to some configured client
GetClientFallback(clients, app_id) ==
    IF app_id \in clients THEN <<app_id>>
    ELSE IF clients # {} THEN <<CHOOSE a \in clients : TRUE>>
    ELSE <<>>

\* a lookup through a client the router keeps in a field all calls share
GetClientShared(clients, app_id) ==
    IF \E d \in Calls : calls[d].pc = "send"
    THEN <<calls[CHOOSE d \in Calls : calls[d].pc = "send"].app_id>>
    ELSE IF app_id \in clients THEN <<app_id>> ELSE <<>>

\* self.clients.get(&app_id)
GetClient(clients, app_id) == IF app_id \in clients THEN <<app_id>> ELSE <<>>

\* route_notification up to its first suspension point (router.rs:143-160):
\* either an early return with an error, or the arguments of client.send
RoutePrefix(r, n) ==
    LET none == [ok |-> FALSE, err |-> NoError, client |-> "", token |-> "", ttl |-> AsUsize(0)]
    IN  IF ~n.router_data.some THEN [none EXCEPT !.err = NoRegistrationToken]
        ELSE LET info == RoutingInfo(n.router_data.map)
             IN  IF ~info.ok THEN [none EXCEPT !.err = info.err]
                 ELSE LET ttl == EffectiveTtl(AsUsize(r.min_ttl), n.ttl)
                          client == GetClient(r.clients, info.app_id)
                      IN  IF client = <<>>
                          THEN [none EXCEPT !.err = InvalidAppId(info.app_id)]
                          ELSE IF ~n.well_formed
                          THEN [none EXCEPT !.err = BuildMessageDataError]
                          ELSE [ok |-> TRUE, err |-> NoError, client |-> client[1],
                                token |-> info.token, ttl |-> ttl]

\* handle_error called with the nil uaid instead of the notification's
HandleErrorArgsNilUaid(e, n, app_id) ==
    [error |-> e, platform |-> "wnsv1", app_id |-> app_id, uaid |-> "uaid-1"]

\* handle_error called with NotFound whatever the send returned
HandleErrorArgsAsGone(e, n, app_id) ==
    [error |-> "NotFound", platform |-> "wnsv1", app_id |-> app_id, uaid |-> n.uaid]

\* the arguments route_notification passes to handle_error (router.rs:165-173)
HandleErrorArgs(e, n, app_id) ==
    [error |-> e, platform |-> "wnsv1", app_id |-> app_id, uaid |-> n.uaid]

\* the value route_notification returns after a successful send (router.rs:180-186)
SuccessResponse(r, n) == OkResult(Location(r.endpoint_url, n.message_id), ResponseTtl(n.ttl))

\* handle_error: does the backend error call for pruning the user?
IsGone(e) == e = "NotFound"

\* handle_error: the unified error returned to the caller
Translated(e) == BackendError(e)

AllIdle == \A c \in Calls : calls[c].pc = "idle"

(***************************************************************************)
(* Actions                                                                 *)
(***************************************************************************)
\* the process is started again and WnsRouter::new runs on the settings of
\* that start
Restart(r) ==
    /\ AllIdle
    /\ epoch < MaxEpoch
    /\ router' = r
    /\ epoch' = epoch + 1
    /\ UNCHANGED <<lastReg, calls, err, response>>

\* one call of register; it needs nothing but &self
RegisterCall(token, app_id) ==
    /\ router.built
    /\ LET res == RegisterResult(router.clients, token, app_id)
       IN  lastReg' = [tag |-> res.tag, err |-> res.err, data |-> res.data,
                       epoch |-> epoch, token |-> token, app_id |-> app_id]
    /\ UNCHANGED <<router, epoch, calls, err, response>>

\* register while no notification is being routed
Register(token, app_id) ==
    /\ AllIdle
    /\ RegisterCall(token, app_id)

RouteStart(c, n) ==
    /\ router.built
    /\ calls[c].pc = "idle"
    /\ LET p == RoutePrefix(router, n)
           base == [IdleCall EXCEPT
                      !.n = n,
                      !.reg = IF lastReg.tag = "Ok" /\ n.router_data = SomeRouterData(lastReg.data)
                              THEN lastReg ELSE NoRegistration]
       IN  calls' = [calls EXCEPT ![c] =
                IF p.ok
                THEN [base EXCEPT !.pc = "send", !.app_id = p.client,
                                  !.sends = <<[client |-> p.client, token |-> p.token,
                                               ttl |-> p.ttl]>>]
                ELSE [base EXCEPT !.pc = "done", !.result = ErrResult(p.err)]]
    /\ lastReg' = NoRegistration
    /\ UNCHANGED <<router, epoch, err, response>>

\* the notifications for the subscription that stored what register returned
RegisteredNotifications ==
    IF lastReg.tag # "Ok" THEN {}
    ELSE [message_id : MessageIds, ttl : Ttls, uaid : Uaids,
          router_data : {SomeRouterData(lastReg.data)}, well_formed : BOOLEAN]

RouteNotification(c) ==
    /\ router.built
    /\ calls[c].pc = "idle"
    /\ \E n \in Notifications \cup RegisteredNotifications : RouteStart(c, n)

\* the notifications of the concurrent runs: one per application, and one for
\* an application without a client
ConcRouterDatas ==
    { SomeRouterData(MkMap(StringValue("test-token"), StringValue("dev"))),
      SomeRouterData(MkMap(StringValue("other-token"), StringValue("gcm"))),
      SomeRouterData(MkMap(StringValue("test-token"), StringValue("unknown-app-id"))) }

ConcNotifications ==
    [message_id : MessageIds, ttl : {0}, uaid : Uaids,
     router_data : ConcRouterDatas, well_formed : {TRUE}]

RouteNotificationConc(c) ==
    /\ router.built
    /\ calls[c].pc = "idle"
    /\ \E n \in ConcNotifications : RouteStart(c, n)

SendOk(c) ==
    /\ calls[c].pc = "send"
    /\ calls' = [calls EXCEPT ![c] =
            [@ EXCEPT !.pc = "done",
                      !.send_outcome = "Ok",
                      !.success_metrics = @ + 1,
                      !.result = SuccessResponse(router, calls[c].n)]]
    /\ UNCHANGED <<router, epoch, lastReg, err, response>>

\* a send that is made once more after a timeout
SendErrRetry(c, e) ==
    /\ calls[c].pc = "send"
    /\ LET args == HandleErrorArgs(e, calls[c].n, calls[c].app_id)
       IN  calls' = [calls EXCEPT ![c] =
            IF e = "RequestTimeout" /\ Len(calls[c].sends) < 2
            THEN [@ EXCEPT !.sends = Append(@, @[1])]
            ELSE IF IsGone(args.error)
            THEN [@ EXCEPT !.pc = "remove_user",
                           !.send_outcome = e,
                           !.handled = Append(@, args),
                           !.error_metrics = @ + 1,
                           !.removes = Append(@, args.uaid)]
            ELSE [@ EXCEPT !.pc = "done",
                           !.send_outcome = e,
                           !.handled = Append(@, args),
                           !.error_metrics = @ + 1,
                           !.result = ErrResult(Translated(args.error))]]
    /\ UNCHANGED <<router, epoch, lastReg, err, response>>

SendErr(c, e) ==
    /\ calls[c].pc = "send"
    /\ LET args == HandleErrorArgs(e, calls[c].n, calls[c].app_id)
       IN  calls' = [calls EXCEPT ![c] =
            IF IsGone(args.error)
            THEN [@ EXCEPT !.pc = "remove_user",
                           !.send_outcome = e,
                           !.handled = Append(@, args),
                           !.error_metrics = @ + 1,
                           !.removes = Append(@, args.uaid)]
            ELSE [@ EXCEPT !.pc = "done",
                           !.send_outcome = e,
                           !.handled = Append(@, args),
                           !.error_metrics = @ + 1,
                           !.result = ErrResult(Translated(args.error))]]
    /\ UNCHANGED <<router, epoch, lastReg, err, response>>

RemoveUserReturns(c, ok) ==
    /\ calls[c].pc = "remove_user"
    /\ calls' = [calls EXCEPT ![c] =
            [@ EXCEPT !.pc = "done",
                      !.remove_ok = Append(@, ok),
                      !.result = ErrResult(Translated(calls[c].handled[Len(calls[c].handled)].error))]]
    /\ UNCHANGED <<router, epoch, lastReg, err, response>>

Return(c) ==
    /\ calls[c].pc = "done"
    /\ calls' = [calls EXCEPT ![c] = IdleCall]
    /\ UNCHANGED <<router, epoch, lastReg, err, response>>

(***************************************************************************)
(* error.rs: ApiErrorKind                                                  *)
(***************************************************************************)
\* Option<T>
None == <<>>

Some(x) == <<x>>

SeqsUpTo(S, n) == UNION {[1..k -> S] : k \in 0..n}

\* Vec<ValidationError> of one field and the entries of a List hold at most
\* this many elements
MaxErrors == 2

ERROR_URL == "http://autopush.readthedocs.io/en/latest/http.html#error-codes"

\* ValidationError::code, a string, spelled out in characters
Codes ==
    { <<"1", "1", "4">>, <<"+", "7">>, <<"r", "a", "n", "g", "e">> }

Digits == {"0", "1", "2", "3", "4", "5", "6", "7", "8", "9"}

DigitValue(ch) ==
    CASE ch = "0" -> 0 [] ch = "1" -> 1 [] ch = "2" -> 2 [] ch = "3" -> 3 [] ch = "4" -> 4
      [] ch = "5" -> 5 [] ch = "6" -> 6 [] ch = "7" -> 7 [] ch = "8" -> 8 [] ch = "9" -> 9

RECURSIVE DigitsValue(_, _)
DigitsValue(s, acc) ==
    IF s = <<>> THEN acc ELSE DigitsValue(Tail(s), acc * 10 + DigitValue(Head(s)))

\* str::parse::<usize>().ok(): an optional '+', then one or more decimal digits
ParseUsize(s) ==
    LET body == IF s # <<>> /\ Head(s) = "+" THEN Tail(s) ELSE s
    IN  IF body = <<>> THEN None
        ELSE IF \E i \in 1..Len(body) : body[i] \notin Digits THEN None
        ELSE Some(DigitsValue(body, 0))

\* ValidationErrorsKind.  A ValidationErrors is the sequence of the kinds of
\* its fields, in the order `errors().values()` yields them.
FieldKind(codes) == [kind |-> "Field", codes |-> codes, inner |-> <<>>]

StructKind(errors) == [kind |-> "Struct", codes |-> <<>>, inner |-> <<errors>>]

ListKind(indexed) == [kind |-> "List", codes |-> <<>>, inner |-> indexed]

FieldNames == {"ttl", "topic"}

InnerErrors == SeqsUpTo({FieldKind(cs) : cs \in SeqsUpTo(Codes, 1)}, 1)

ErrorsKinds ==
    {FieldKind(cs) : cs \in SeqsUpTo(Codes, MaxErrors)}
      \cup {StructKind(e) : e \in InnerErrors}
      \cup {ListKind(l) : l \in SeqsUpTo(InnerErrors, MaxErrors)}

ValidationErrorsSet == SeqsUpTo(ErrorsKinds, Cardinality(FieldNames))

RECURSIVE Concat(_)
Concat(seqs) == IF seqs = <<>> THEN <<>> ELSE Head(seqs) \o Concat(Tail(seqs))

RECURSIVE errno_from_validation_errors(_)
RECURSIVE KindErrnos(_)
\* a closure that looks at Field errors only
KindErrnosFieldsOnly(k) ==
    IF k.kind = "Field"
    THEN Concat([i \in 1..Len(k.codes) |-> ParseUsize(k.codes[i])])
    ELSE <<>>

\* the iterator the flat_map closure returns for one ValidationErrorsKind
KindErrnos(k) ==
    CASE k.kind = "Struct" -> errno_from_validation_errors(k.inner[1])
      [] k.kind = "List" ->
            Concat([i \in 1..Len(k.inner) |-> errno_from_validation_errors(k.inner[i])])
      [] k.kind = "Field" ->
            Concat([i \in 1..Len(k.codes) |-> ParseUsize(k.codes[i])])

errno_from_validation_errors(e) ==
    LET all == Concat([i \in 1..Len(e) |-> KindErrnos(e[i])])
    IN  IF all = <<>> THEN None ELSE Some(Head(all))

\* actix's PayloadError and its ResponseError::status_code
PayloadErrors == {"Overflow", "Incomplete", "EncodingCorrupted", "UnknownLength"}

PayloadStatus(p) == IF p = "Overflow" THEN 413 ELSE 400

\* RouterError: its display string, status() and errno()
RouterErrors ==
    { [text |-> "Bridge recipient not found", status |-> 410, errno |-> Some(106)],
      [text |-> "Bridge authentication error", status |-> 500, errno |-> Some(901)],
      [text |-> "Bridge request timeout", status |-> 502, errno |-> Some(903)],
      [text |-> "Unknown upstream error", status |-> 599, errno |-> None] }

Kind(variant) ==
    [variant |-> variant, text |-> "", size |-> 0, payload |-> "",
     rstatus |-> 0, rerrno |-> None, verrs |-> <<>>]

NoApiError == Kind("None")

ApiErrorKinds ==
    {[Kind("Io") EXCEPT !.text = "broken pipe"]}
      \cup {[Kind("Metrics") EXCEPT !.text = "metric sink failed"]}
      \cup {[Kind("Validation") EXCEPT !.text = "validation failed", !.verrs = v] :
              v \in ValidationErrorsSet}
      \cup {[Kind("PayloadError") EXCEPT !.text = p, !.payload = p] : p \in PayloadErrors}
      \cup {[Kind("VapidError") EXCEPT !.text = "Missing VAPID token"]}
      \cup {[Kind("Router") EXCEPT !.text = r.text, !.rstatus = r.status, !.rerrno = r.errno] :
              r \in RouterErrors}
      \cup {[Kind("Jwt") EXCEPT !.text = "InvalidSignature"]}
      \cup {Kind("TokenHashValidation")}
      \cup {[Kind("Database") EXCEPT !.text = "connection refused"]}
      \cup {Kind("InvalidToken"), Kind("NoUser"), Kind("NoSubscription"),
            Kind("InvalidApiVersion"), Kind("NoTTL")}
      \cup {[Kind("InvalidEncryption") EXCEPT !.text = t] :
              t \in {"Missing Content-Encoding header", ""}}
      \cup {[Kind("PayloadTooLarge") EXCEPT !.size = n] : n \in {0, 4096}}
      \cup {[Kind("Internal") EXCEPT !.text = t] :
              t \in {"Db threadpool operation canceled", "oops"}}

\* ApiErrorKind::status, as StatusCode::as_u16
Status(k) ==
    CASE k.variant = "PayloadError" -> PayloadStatus(k.payload)
      [] k.variant = "Router" -> k.rstatus
      [] k.variant \in {"Validation", "InvalidEncryption", "TokenHashValidation", "NoTTL"} -> 400
      [] k.variant \in {"NoUser", "NoSubscription"} -> 410
      [] k.variant \in {"VapidError", "Jwt"} -> 401
      [] k.variant \in {"InvalidToken", "InvalidApiVersion"} -> 404
      [] k.variant = "PayloadTooLarge" -> 413
      [] k.variant \in {"Io", "Metrics", "Database", "Internal"} -> 500

\* ApiErrorKind::errno
Errno(k) ==
    CASE k.variant = "Router" -> k.rerrno
      [] k.variant = "Validation" -> errno_from_validation_errors(k.verrs)
      [] k.variant \in {"InvalidToken", "InvalidApiVersion"} -> Some(102)
      [] k.variant = "NoUser" -> Some(103)
      [] k.variant = "PayloadError" /\ k.payload = "Overflow" -> Some(104)
      [] k.variant = "PayloadTooLarge" -> Some(104)
      [] k.variant = "NoSubscription" -> Some(106)
      [] k.variant \in {"VapidError", "TokenHashValidation", "Jwt"} -> Some(109)
      [] k.variant = "InvalidEncryption" -> Some(110)
      [] k.variant = "NoTTL" -> Some(111)
      [] k.variant = "Internal" -> Some(999)
      [] k.variant \in {"Io", "Metrics", "Database"} -> None
      [] k.variant = "PayloadError" /\ k.payload # "Overflow" -> None

RECURSIVE DecimalFrom(_)
DecimalFrom(n) ==
    LET d == CHOOSE ch \in Digits : DigitValue(ch) = n % 10
    IN  IF n < 10 THEN <<d>> ELSE Append(DecimalFrom(n \div 10), d)

\* the #[error(...)] attributes: the display string, as its pieces
Display(k) ==
    CASE k.variant \in {"Io", "Metrics", "Validation", "VapidError", "Router", "Jwt"} -> <<k.text>>
      [] k.variant \in {"PayloadError", "InvalidEncryption", "Internal"} -> <<k.text>>
      [] k.variant = "TokenHashValidation" -> <<"Error while validating token">>
      [] k.variant = "Database" -> <<"Database error: ", k.text>>
      [] k.variant = "InvalidToken" -> <<"Invalid token">>
      [] k.variant = "NoUser" -> <<"UAID not found">>
      [] k.variant = "NoSubscription" -> <<"No such subscription">>
      [] k.variant = "PayloadTooLarge" ->
            <<"Data payload must be smaller than ">> \o DecimalFrom(k.size) \o <<" bytes">>
      [] k.variant = "InvalidApiVersion" -> <<"Invalid API version">>
      [] k.variant = "NoTTL" -> <<"Missing TTL value">>

\* StatusCode::canonical_reason
CanonicalReason(status) ==
    CASE status = 400 -> Some("Bad Request")
      [] status = 401 -> Some("Unauthorized")
      [] status = 404 -> Some("Not Found")
      [] status = 410 -> Some("Gone")
      [] status = 413 -> Some("Payload Too Large")
      [] status = 500 -> Some("Internal Server Error")
      [] status = 502 -> Some("Bad Gateway")
      [] OTHER -> None

\* a serializer that leaves out an errno of None
SerializeSkipNone(k) ==
    IF Errno(k) = None
    THEN [code |-> Status(k), error |-> CanonicalReason(Status(k)),
          message |-> Display(k), more_info |-> ERROR_URL]
    ELSE [code |-> Status(k), errno |-> Errno(k), error |-> CanonicalReason(Status(k)),
          message |-> Display(k), more_info |-> ERROR_URL]

\* impl Serialize for ApiError
Serialize(k) ==
    LET status == Status(k)
    IN  [code |-> status,
         errno |-> Errno(k),
         error |-> CanonicalReason(status),
         message |-> Display(k),
         more_info |-> ERROR_URL]

EmptyBody == [x \in {} |-> 0]

NoResponse == [by |-> "none", status |-> 0, has_body |-> FALSE, body |-> EmptyBody]

\* impl ResponseError for ApiError: error_response
ErrorResponse(k) ==
    [by |-> "error_response", status |-> Status(k), has_body |-> TRUE, body |-> Serialize(k)]

\* ApiError::render_404
Render404(res) ==
    [by |-> "render_404", status |-> 404, has_body |-> FALSE, body |-> EmptyBody]

(***************************************************************************)
(* Actions on errors                                                       *)
(***************************************************************************)
RenderError ==
    /\ err # NoApiError
    /\ response.by = "none"
    /\ response' = ErrorResponse(err)
    /\ UNCHANGED <<router, epoch, lastReg, calls, err>>

\* the response the framework produces when no route matches
DefaultNotFound == [by |-> "framework", status |-> 404, has_body |-> FALSE, body |-> EmptyBody]

\* the error handler runs render_404 on an outbound response: an error's
\* response, or the framework's own when no route matched
RenderNotFound ==
    /\ response.by \in {"none", "error_response"}
    /\ response' = Render404(IF response.by = "none" THEN DefaultNotFound ELSE response)
    /\ UNCHANGED <<router, epoch, lastReg, calls, err>>

(***************************************************************************)
(* Specifications                                                          *)
(***************************************************************************)
\* Spec: one router, restarted at most MaxEpoch - 1 times; register calls and
\* one route_notification call at a time.
Init ==
    /\ router \in Constructions
    /\ epoch = 1
    /\ lastReg = NoRegistration
    /\ calls = [c \in Calls |-> IdleCall]
    /\ err = NoApiError
    /\ response = NoResponse

Next ==
    \/ \E r \in Constructions : Restart(r)
    \/ \E t \in Tokens, a \in AppIds : Register(t, a)
    \/ RouteNotification("call-1")
    \/ SendOk("call-1")
    \/ \E e \in SendErrors : SendErr("call-1", e)
    \/ \E ok \in BOOLEAN : RemoveUserReturns("call-1", ok)
    \/ Return("call-1")

Spec == Init /\ [][Next]_vars

\* SpecConc: one router and two route_notification calls, interleaved at
\* their suspension points (the futures are ?Send: the calls run on one
\* thread and yield only at an await), with register calls in between.
InitConc ==
    /\ router \in {r \in Constructions :
                     r.built /\ r.min_ttl = 60 /\ r.endpoint_url.path = <<>>}
    /\ epoch = 1
    /\ lastReg = NoRegistration
    /\ calls = [c \in Calls |-> IdleCall]
    /\ err = NoApiError
    /\ response = NoResponse

NextConc ==
    \/ \E a \in AppIds : RegisterCall("test-token", a)
    \/ \E c \in Calls : RouteNotificationConc(c)
    \/ \E c \in Calls : SendOk(c)
    \/ \E c \in Calls, e \in SendErrors : SendErr(c, e)
    \/ \E c \in Calls, ok \in BOOLEAN : RemoveUserReturns(c, ok)
    \/ \E c \in Calls : Return(c)

SpecConc == InitConc /\ [][NextConc]_vars

\* SpecErr: every ApiErrorKind, rendered to a response.
InitErr ==
    /\ router = NoRouter
    /\ epoch = 1
    /\ lastReg = NoRegistration
    /\ calls = [c \in Calls |-> IdleCall]
    /\ err \in ApiErrorKinds
    /\ response = NoResponse

NextErr ==
    \/ RenderError
    \/ RenderNotFound

SpecErr == InitErr /\ [][NextErr]_vars

(***************************************************************************)
(* Properties                                                              *)
(***************************************************************************)
IntMax(a, b) == IF a >= b THEN a ELSE b

IntMin(a, b) == IF a <= b THEN a ELSE b

\* the usize u holds the number t
UsizeIs(u, t) == t >= 0 /\ u = <<0, 0, t \div LimbBase, t % LimbBase>>

Started(c) == calls[c].pc # "idle"

Returned(c) == calls[c].pc = "done"

\* C1: every send of a route_notification call carries the TTL
\* min(MAX_TTL, max(settings.min_ttl, requested_ttl)), for every requested TTL
\* of the signed range, negative ones included.
C1_SentTtlIsClamped ==
    \A c \in Calls : \A i \in 1..Len(calls[c].sends) :
        UsizeIs(calls[c].sends[i].ttl,
                IntMin(MAX_TTL, IntMax(router.min_ttl, calls[c].n.ttl)))

\* C2: a successful route_notification returns the originally requested TTL
\* and the location endpoint_url joined with /m/<message_id>.
C2_ResponseEchoesRequest ==
    \A c \in Calls :
        Returned(c) /\ calls[c].result.tag = "Ok" =>
            /\ UsizeIs(calls[c].result.ttl, calls[c].n.ttl)
            /\ calls[c].result.location =
                 [origin |-> router.endpoint_url.origin,
                  path |-> <<"m", calls[c].n.message_id>>]

\* C3: register(input, app_id) returns InvalidAppId iff app_id has no entry in
\* the client pool; otherwise it returns the mapping {token, app_id} of its
\* arguments.  Either way no send, no storage operation, and the router
\* (client pool, settings) is unchanged.
C3_Register ==
    [][\A t \in Tokens, a \in AppIds :
         Register(t, a) =>
            /\ (lastReg'.tag = "Err") <=> (a \notin router.clients)
            /\ lastReg'.tag = "Err" => lastReg'.err = InvalidAppId(a)
            /\ lastReg'.tag # "Err" =>
                  /\ lastReg'.tag = "Ok"
                  /\ DOMAIN lastReg'.data = {"token", "app_id"}
                  /\ lastReg'.data["token"] = [kind |-> "String", v |-> t]
                  /\ lastReg'.data["app_id"] = [kind |-> "String", v |-> a]
            /\ router' = router
            /\ calls' = calls]_vars

C3_Witness ==
    /\ lastReg.tag = "Err"
    /\ lastReg.epoch = epoch
    /\ lastReg.app_id \notin router.clients
    /\ router.clients # {}

\* C4: a notification carrying the routing data a register call returned on
\* the same router never fails with NoRegistrationToken, NoAppId or
\* InvalidAppId, and is sent to the registered token through the client of
\* the registered app_id.
C4_RoundTrip ==
    \A c \in Calls :
        LET k == calls[c]
        IN  Started(c) /\ k.reg.tag = "Ok" /\ k.reg.epoch = epoch =>
              /\ k.result.err.name \notin {"NoRegistrationToken", "NoAppId", "InvalidAppId"}
              /\ \A i \in 1..Len(k.sends) :
                    /\ k.sends[i].token = k.reg.token
                    /\ k.sends[i].client = k.reg.app_id
              /\ k.n.well_formed => Len(k.sends) = 1

C4_Witness ==
    \E c \in Calls :
        /\ Returned(c)
        /\ calls[c].reg.tag = "Ok"
        /\ calls[c].reg.epoch = epoch
        /\ calls[c].send_outcome = "Ok"
        /\ calls[c].result.tag = "Ok"

\* the routing data names (as a string) an app_id without a client in the pool
NamesUnknownAppId(c) ==
    LET rd == calls[c].n.router_data
    IN  /\ Started(c)
        /\ rd.some
        /\ "app_id" \in DOMAIN rd.map
        /\ rd.map["app_id"].kind = "String"
        /\ rd.map["app_id"].v \notin router.clients

HasStringToken(c) ==
    LET rd == calls[c].n.router_data
    IN  rd.some /\ "token" \in DOMAIN rd.map /\ rd.map["token"].kind = "String"

HasStringAppId(c) ==
    LET rd == calls[c].n.router_data
    IN  rd.some /\ "app_id" \in DOMAIN rd.map /\ rd.map["app_id"].kind = "String"

NoEffects(c) ==
    /\ calls[c].sends = <<>>
    /\ calls[c].removes = <<>>
    /\ calls[c].remove_ok = <<>>
    /\ calls[c].success_metrics = 0

\* C5 (as claimed): routing data naming an app_id without a client in the
\* live pool always makes route_notification return InvalidAppId, with no
\* send, no storage mutation and no success metric.
C5_UnknownAppIdIsInvalidAppId ==
    \A c \in Calls :
        NamesUnknownAppId(c) =>
            /\ Returned(c)
            /\ calls[c].result.tag = "Err"
            /\ calls[c].result.err = InvalidAppId(calls[c].n.router_data.map["app_id"].v)
            /\ NoEffects(c)

\* C5 (amended): routing data naming an app_id without a client in the live
\* pool makes route_notification return InvalidAppId when the data also
\* carries a string token, and NoRegistrationToken when it does not; either
\* way no send, no storage mutation and no success metric.
C5_UnknownAppIdFails ==
    \A c \in Calls :
        NamesUnknownAppId(c) =>
            /\ Returned(c)
            /\ calls[c].result.tag = "Err"
            /\ calls[c].result.err =
                 IF HasStringToken(c)
                 THEN InvalidAppId(calls[c].n.router_data.map["app_id"].v)
                 ELSE NoRegistrationToken
            /\ NoEffects(c)

\* an InvalidAppId failure for routing data that register returned on an
\* earlier router, whose pool had the client
C5_Witness ==
    \E c \in Calls :
        /\ NamesUnknownAppId(c)
        /\ Returned(c)
        /\ calls[c].result.err.name = "InvalidAppId"
        /\ calls[c].reg.tag = "Ok"
        /\ calls[c].reg.epoch < epoch

\* C6: when client.send fails with not-found, remove_user is invoked exactly
\* once, with the notification's uaid, and the call returns NotFound whether
\* the removal succeeded or failed.
C6_GonePrunesUser ==
    \A c \in Calls :
        calls[c].send_outcome = "NotFound" =>
            /\ calls[c].removes = <<calls[c].n.uaid>>
            /\ calls[c].pc \in {"remove_user", "done"}
            /\ Returned(c) =>
                  /\ Len(calls[c].remove_ok) = 1
                  /\ calls[c].result.tag = "Err"
                  /\ calls[c].result.err.name = "NotFound"

C6_Witness ==
    \E c \in Calls :
        /\ Returned(c)
        /\ calls[c].send_outcome = "NotFound"
        /\ calls[c].remove_ok = <<FALSE>>
        /\ calls[c].n.uaid = "uaid-2"
        /\ calls[c].result.err.name = "NotFound"

\* C7: when client.send fails with anything but not-found, remove_user is
\* never invoked and the call returns that backend error.
C7_OtherErrorsWrapped ==
    \A c \in Calls :
        calls[c].send_outcome \in SendErrors \ {"NotFound"} =>
            /\ calls[c].removes = <<>>
            /\ calls[c].remove_ok = <<>>
            /\ Returned(c)
            /\ calls[c].result.tag = "Err"
            /\ calls[c].result.err.name = calls[c].send_outcome

C7_Witness ==
    \E c \in Calls :
        /\ Returned(c)
        /\ calls[c].send_outcome = "RequestTimeout"
        /\ calls[c].result.err.name = "RequestTimeout"
        /\ calls[c].removes = <<>>

\* C8: absent routing data and a missing or non-string token fail with
\* NoRegistrationToken, a missing or non-string app_id (the token being there)
\* fails with the different error NoAppId, and no send or storage operation
\* comes before these failures.
C8_RoutingDataValidated ==
    \A c \in Calls :
        Started(c) =>
            /\ ~calls[c].n.router_data.some =>
                  calls[c].result = ErrResult([name |-> "NoRegistrationToken", arg |-> ""])
            /\ ~HasStringToken(c) =>
                  /\ calls[c].result.tag = "Err"
                  /\ calls[c].result.err.name = "NoRegistrationToken"
            /\ HasStringToken(c) /\ ~HasStringAppId(c) =>
                  /\ calls[c].result.tag = "Err"
                  /\ calls[c].result.err.name = "NoAppId"
            /\ ~HasStringToken(c) \/ ~HasStringAppId(c) =>
                  /\ Returned(c)
                  /\ NoEffects(c)
                  /\ calls[c].handled = <<>>
                  /\ calls[c].error_metrics = 0

\* neither key is usable: the token's error is the one reported
C8_Witness ==
    \E c \in Calls :
        /\ Returned(c)
        /\ calls[c].n.router_data.some
        /\ ~HasStringToken(c)
        /\ ~HasStringAppId(c)
        /\ calls[c].result.err.name = "NoRegistrationToken"

RECURSIVE AllCodes(_)
\* every code of a ValidationErrors, nested ones included, in iteration order
AllCodes(e) ==
    Concat([i \in 1..Len(e) |->
        IF e[i].kind = "Field" THEN e[i].codes
        ELSE Concat([j \in 1..Len(e[i].inner) |-> AllCodes(e[i].inner[j])])])

FirstNumericCode(e) ==
    LET codes == AllCodes(e)
        numeric == {i \in 1..Len(codes) : ParseUsize(codes[i]) # <<>>}
    IN  IF numeric = {} THEN <<>>
        ELSE ParseUsize(codes[CHOOSE i \in numeric : \A j \in numeric : i <= j])

\* C9: status and errno are defined for every ApiErrorKind and follow the
\* table: 413/104 payload too large and overflow; 400 and the first numeric
\* nested code (else none) for validation; 400/110, 400/109, 400/111;
\* 410/103 and 410/106; 401/109; 404/102; the router's own status and errno;
\* 500/none for I/O, metrics and database; 500/999 for internal.
C9_StatusErrnoTable ==
    LET v == err.variant
        is(st, en) == Status(err) = st /\ Errno(err) = en
    IN  err.variant # "None" =>
          /\ Status(err) \in 100..599
          /\ Errno(err) = <<>> \/ (Len(Errno(err)) = 1 /\ Errno(err)[1] \in Nat)
          /\ v = "PayloadTooLarge" => is(413, <<104>>)
          /\ v = "PayloadError" /\ err.payload = "Overflow" => is(413, <<104>>)
          /\ v = "Validation" => is(400, FirstNumericCode(err.verrs))
          /\ v = "InvalidEncryption" => is(400, <<110>>)
          /\ v = "TokenHashValidation" => is(400, <<109>>)
          /\ v = "NoTTL" => is(400, <<111>>)
          /\ v = "NoUser" => is(410, <<103>>)
          /\ v = "NoSubscription" => is(410, <<106>>)
          /\ v \in {"VapidError", "Jwt"} => is(401, <<109>>)
          /\ v \in {"InvalidToken", "InvalidApiVersion"} => is(404, <<102>>)
          /\ v = "Router" => is(err.rstatus, err.rerrno)
          /\ v \in {"Io", "Metrics", "Database"} => is(500, <<>>)
          /\ v = "Internal" => is(500, <<999>>)

\* a validation error whose first field has no numeric code and whose second,
\* nested, has one
C9_Witness ==
    /\ err.variant = "Validation"
    /\ Len(err.verrs) = 2
    /\ err.verrs[1].kind = "Field"
    /\ err.verrs[1].codes = << <<"r", "a", "n", "g", "e">> >>
    /\ err.verrs[2].kind = "Struct"
    /\ Errno(err) = <<114>>
    /\ response.by = "error_response"

\* C10: the response rendered for an ApiError has status(kind) and a body of
\* exactly the keys code, errno, error, message, more_info, with code the
\* status, errno(kind), the display string and the documentation URL; a
\* response without the body comes from render_404, which returns the same
\* bare 404 whatever response it was given.
C10_ErrorResponseBody ==
    /\ response.by = "error_response" =>
          /\ response.status = Status(err)
          /\ response.has_body
          /\ DOMAIN response.body = {"code", "errno", "error", "message", "more_info"}
          /\ response.body["code"] = response.status
          /\ response.body["errno"] = Errno(err)
          /\ response.body["message"] = Display(err)
          /\ response.body["more_info"] =
               "http://autopush.readthedocs.io/en/latest/http.html#error-codes"
    /\ response.by # "none" /\ ~response.has_body =>
          /\ response.by = "render_404"
          /\ response.status = 404
          /\ DOMAIN response.body = {}

\* an error rendered with no errno: the key is there, holding None
C10_Witness ==
    /\ response.by = "error_response"
    /\ err.variant = "Validation"
    /\ err.verrs # <<>>
    /\ "errno" \in DOMAIN response.body
    /\ response.body["errno"] = <<>>

\* a call that returned before its send
ReturnedEarly(c, e) ==
    /\ Returned(c)
    /\ calls[c].result = ErrResult(e)
    /\ calls[c].send_outcome = ""
    /\ NoEffects(c)
    /\ calls[c].handled = <<>>
    /\ calls[c].error_metrics = 0

\* what a call does when it runs alone, from its own notification, what its
\* own send and its own remove_user returned, and the router
AloneOutcome(c) ==
    LET k == calls[c]
        m == k.n.router_data.map
    IN  IF ~HasStringToken(c) THEN ReturnedEarly(c, NoRegistrationToken)
        ELSE IF ~HasStringAppId(c) THEN ReturnedEarly(c, NoAppId)
        ELSE IF m["app_id"].v \notin router.clients
        THEN ReturnedEarly(c, InvalidAppId(m["app_id"].v))
        ELSE IF ~k.n.well_formed THEN ReturnedEarly(c, BuildMessageDataError)
        ELSE
          /\ k.sends = <<[client |-> m["app_id"].v, token |-> m["token"].v,
                          ttl |-> EffectiveTtl(AsUsize(router.min_ttl), k.n.ttl)]>>
          /\ k.send_outcome = "" =>
                /\ k.pc = "send"
                /\ k.handled = <<>> /\ k.removes = <<>> /\ k.remove_ok = <<>>
                /\ k.success_metrics = 0 /\ k.error_metrics = 0
                /\ k.result = NoResult
          /\ k.send_outcome = "Ok" =>
                /\ k.pc = "done"
                /\ k.handled = <<>> /\ k.removes = <<>> /\ k.remove_ok = <<>>
                /\ k.success_metrics = 1 /\ k.error_metrics = 0
                /\ k.result = OkResult([origin |-> router.endpoint_url.origin,
                                        path |-> <<"m", k.n.message_id>>],
                                       ResponseTtl(k.n.ttl))
          /\ k.send_outcome \in SendErrors =>
                /\ k.handled = <<[error |-> k.send_outcome, platform |-> "wnsv1",
                                  app_id |-> m["app_id"].v, uaid |-> k.n.uaid]>>
                /\ k.success_metrics = 0 /\ k.error_metrics = 1
                /\ IF k.send_outcome = "NotFound"
                   THEN /\ k.removes = <<k.n.uaid>>
                        /\ IF k.remove_ok = <<>>
                           THEN k.pc = "remove_user" /\ k.result = NoResult
                           ELSE /\ k.pc = "done"
                                /\ Len(k.remove_ok) = 1
                                /\ k.result = ErrResult(BackendError("NotFound"))
                   ELSE /\ k.removes = <<>> /\ k.remove_ok = <<>>
                        /\ k.pc = "done"
                        /\ k.result = ErrResult(BackendError(k.send_outcome))

\* a step changes neither the router nor more than one call
OneCallPerStep ==
    /\ router' = router
    /\ epoch' = epoch
    /\ \A c \in Calls, d \in Calls :
          c # d /\ calls'[c] # calls[c] => calls'[d] = calls[d]

\* C11: under every interleaving of two concurrent route_notification calls
\* each call has exactly the result and the effects it has when run alone,
\* and no step of a call or of register changes the client pool or settings.
C11_ConcurrentCallsIndependent ==
    /\ [](\A c \in Calls : Started(c) => AloneOutcome(c))
    /\ [][OneCallPerStep]_vars

\* both calls suspended at once, for different applications: one in its send,
\* the other in the storage removal
C11_Witness ==
    /\ calls["call-1"].pc = "remove_user"
    /\ calls["call-2"].pc = "send"
    /\ calls["call-1"].app_id = "dev"
    /\ calls["call-2"].app_id = "gcm"

\* C12: whatever settings the router of a state was constructed from, there is
\* a router exactly when the credentials were readable and every configured
\* client built; its pool then has exactly the configured profiles as keys,
\* and active() holds exactly when that pool is not empty.
C12_ConstructionAllOrNothing ==
    \A readable \in BOOLEAN, creds \in SUBSET Profiles, authOk \in SUBSET Profiles,
       m \in MinTtls, u \in EndpointUrls :
        router = NewRouter(readable, creds, authOk, m, u) =>
            /\ router.built <=> (readable /\ creds \subseteq authOk)
            /\ router.built => router.clients = creds
            /\ ~router.built => router = NoRouter
            /\ Active(router) <=> (router.built /\ creds # {})

\* a second construction with both profiles configured, of which one client
\* fails to build: no router
C12_Witness ==
    /\ epoch = 2
    /\ \E u \in EndpointUrls : router = NewRouter(TRUE, Profiles, {"dev"}, 60, u)
    /\ ~router.built

\* C13: a call makes at most one send; before a send there is neither a
\* success metric nor an error translation; a call that returned after a send
\* has either one success metric, no translation and an Ok result, or one
\* translation of the send's error, no success metric and that error as its
\* result.
C13_NoRetries ==
    \A c \in Calls :
        LET k == calls[c]
        IN  /\ Len(k.sends) <= 1
            /\ k.success_metrics + Len(k.handled) <= 1
            /\ k.sends = <<>> =>
                  k.send_outcome = "" /\ k.success_metrics = 0 /\ k.handled = <<>>
            /\ Returned(c) /\ k.sends # <<>> =>
                  \/ /\ k.send_outcome = "Ok"
                     /\ k.success_metrics = 1
                     /\ k.handled = <<>>
                     /\ k.result.tag = "Ok"
                  \/ /\ k.send_outcome \in SendErrors
                     /\ k.success_metrics = 0
                     /\ Len(k.handled) = 1
                     /\ k.handled[1].error = k.send_outcome
                     /\ k.result = ErrResult(Translated(k.send_outcome))

\* a call whose only send timed out has returned the translated error
C13_Witness ==
    /\ Returned("call-1")
    /\ Len(calls["call-1"].sends) = 1
    /\ calls["call-1"].send_outcome = "RequestTimeout"
    /\ Len(calls["call-1"].handled) = 1
    /\ calls["call-1"].result.tag = "Err"

====
